---- MODULE Spec2Model ----
(***************************************************************************)
(* Model of the package-harvester core:                                    *)
(*   - HarvestPipeline::execute (src/src/harvest/pipeline.rs), its two     *)
(*     spawn_blocking workers, the tokio timeout race and the Drop of      *)
(*     TempExtraction;                                                     *)
(*   - TempExtraction::safe_child with std::path's Unix component parser;  *)
(*   - HarvesterExecutor::execute (src/src/executor.rs) over the tokio     *)
(*     Semaphore that bounds the parsers in flight.                        *)
(*                                                                         *)
(* Time is counted in ticks of 1/TicksPerMilli milliseconds.  u64 byte     *)
(* counts are kept at their width as four little-endian 16-bit limbs.      *)
(***************************************************************************)
EXTENDS Integers, Sequences, FiniteSets, TLC

\* ------------------------------------------------------------------ bounds

\* Clock resolution: ticks per millisecond.
TicksPerMilli == 2
\* Duration::as_secs / as_millis: milliseconds per second.
MillisPerSec == 1000
\* The clock moves by one tick at most MaxFine times inside each half second,
\* and by half a second at most MaxCoarse times.
MaxFine == 1
MaxCoarse == 3
\* Configured stage timeouts are 0, 1/2, ..., MaxTimeoutHalves/2 seconds.
MaxTimeoutHalves == 3
\* Longest file list an analyzer returns.
MaxFiles == 2
\* Number of execute calls in flight on the one pipeline.
NumCalls == 2

\* Number of HarvesterExecutor::execute calls made on the one executor.
NumExecCalls == 3
\* Largest concurrency_limit an executor is built with.
MaxLimit == 2

TicksPerSec == TicksPerMilli * MillisPerSec
HalfSec == TicksPerSec \div 2
Timeouts == { k * HalfSec : k \in 0..MaxTimeoutHalves }
Calls == 1..NumCalls
ExecCalls == 1..NumExecCalls

\* Directories an extractor may unpack into.
Dirs == { "/tmp/x1", "/tmp/x2" }

\* stage_name() of the injected extractor and analyzer.
StageNames == { <<"extraction", "analysis">>, <<"mock_extractor", "mock_analyzer">> }

\* ------------------------------------------------------------ u64 arithmetic

LimbBase == 2 ^ 16
U64Limbs == 4

RECURSIVE AddLimbs(_, _, _)
\* a + b + carry over equally long little-endian limb sequences; the result has
\* one more limb (the carry out).
AddLimbs(a, b, carry) ==
    IF a = << >> THEN << carry >>
    ELSE LET s == Head(a) + Head(b) + carry
         IN  << s % LimbBase >> \o AddLimbs(Tail(a), Tail(b), s \div LimbBase)

U64Zero == << 0, 0, 0, 0 >>
U64Of(n) == << n, 0, 0, 0 >>

\* u64 addition as the release build performs it: the carry out is lost.
U64WrappingAdd(a, b) == SubSeq(AddLimbs(a, b, 0), 1, U64Limbs)

RECURSIVE IterSum(_)
\* metadata.files.iter().map(|f| f.size).sum() on u64
IterSum(files) ==
    IF files = << >> THEN U64Zero
    ELSE U64WrappingAdd(Head(files), IterSum(Tail(files)))

\* File sizes an analyzer reports: 0, 12, 2^63 and 2^64 - 1 bytes.
FileSizes ==
    { U64Zero, U64Of(12), << 0, 0, 0, 32768 >>, << 65535, 65535, 65535, 65535 >> }

SeqsUpTo(S, n) == UNION { [1..k -> S] : k \in 0..n }
FileLists == SeqsUpTo(FileSizes, MaxFiles)
SmallFileLists == { << >>, << U64Of(12) >> }

\* ------------------------------------------------------------------ state

VARIABLES
    \* HarvestPipeline fields
    auto_cleanup,       \* bool
    stage_timeout,      \* Duration, in ticks
    stage_names,        \* << extractor.stage_name(), analyzer.stage_name() >>
    \* environment
    now,                \* the monotonic clock (Instant::now()), in ticks
    fs,                 \* the directories that exist on disk
    warnings,           \* paths named by "failed to remove temp dir" on stderr
    \* one execute call each
    pc,                 \* where the coordinator (the async fn) stands
    start,              \* Instant taken at line 355
    extraction_start,   \* Instant taken at line 363
    analysis_start,     \* Instant taken at line 399
    stats,              \* HarvestStats under construction
    exw,                \* the extraction spawn_blocking task
    anw,                \* the analysis spawn_blocking task
    temp,               \* the TempExtraction of the run
    holder,             \* who owns the TempExtraction
    extraction_path_for_result,
    metadata,           \* files of the HarvestMetadata the analyzer returned
    result,             \* what execute returned to its caller
    \* observation of the run (no code reads these)
    extractCalls,       \* times extractor.execute was invoked
    analyzeCalls,       \* times analyzer.execute was invoked
    drops,              \* times Drop for TempExtraction ran
    dirAtReturn,        \* whether temp.path existed when execute returned
    finishedInTime,     \* per stage: whether its worker returned before the
                        \* stage's deadline had passed
    stageOut,           \* per stage: what the stage's execute gave its worker,
                        \* and the flag the extractor stored in its TempExtraction
    \* TempExtraction::safe_child under test
    scRoot,             \* self.path
    scRel,              \* the relative argument
    scRootExists,       \* filesystem: whether self.path exists
    scCanon,            \* filesystem: what self.path canonicalizes to
    scOut,              \* the last safe_child call: what it returned, and the
                        \* filesystem state it ran under
    scFirst,            \* the first safe_child call on these inputs, likewise
    \* HarvesterExecutor and its tokio Semaphore
    limit,              \* concurrency_limit given to HarvesterExecutor::new
    permits,            \* permits the semaphore has available
    waiters,            \* the semaphore's FIFO queue of pending acquire() calls
    closed,             \* whether the semaphore has been closed
    epc,                \* where each HarvesterExecutor::execute call stands
    eres,               \* what each call returned
    parseCalls          \* times parser.parse was invoked by each call

pipelineVars ==
    << auto_cleanup, stage_timeout, stage_names, now, fs, warnings, pc, start,
       extraction_start, analysis_start, stats, exw, anw, temp, holder,
       extraction_path_for_result, metadata, result, extractCalls, analyzeCalls,
       drops, dirAtReturn, finishedInTime, stageOut >>

pathVars == << scRoot, scRel, scRootExists, scCanon, scOut, scFirst >>

execVars == << limit, permits, waiters, closed, epc, eres, parseCalls >>

vars == << pipelineVars, pathVars, execVars >>

\* Option<T>: None is << >>, Some(x) is << x >>.
None == << >>
Some(x) == << x >>

NoTemp == [ path |-> "", cleanup_on_drop |-> FALSE ]

\* HarvestStats::default()
DefaultStats ==
    [ total_duration_ms |-> 0, extraction_duration_ms |-> 0,
      analysis_duration_ms |-> 0, files_processed |-> 0,
      total_size_bytes |-> U64Zero ]

NoResult == [ kind |-> "Pending" ]

TaskIdle == [ st |-> "none", out |-> "none" ]
TaskRunning == [ st |-> "running", out |-> "none" ]
TaskDone(out) == [ st |-> "done", out |-> out ]

\* Result<_, Box<dyn Error>> of a stage, or a panic of its worker.
StageOutcomes == { "ok", "err", "panic" }

\* ------------------------------------------------------- pipeline helpers

\* Variant: as_millis() where as_secs() is meant.
AsSecsInMillis(d) == d \div TicksPerMilli

\* Duration::as_secs(): whole seconds, the sub-second part is dropped.
AsSecs(d) == d \div TicksPerSec

\* Duration::as_millis() as u64: whole milliseconds.
AsMillis(d) == d \div TicksPerMilli

\* Variant: the worker's handle is awaited without a timeout around it.
ElapsedNever(since) == FALSE

\* Variant: the timer is armed with the timeout's whole seconds taken as ticks.
ElapsedInSecs(since) == now - since >= stage_timeout \div TicksPerSec

\* tokio::time::timeout: the deadline of a stage dispatched at `since` has passed.
Elapsed(since) == now - since >= stage_timeout

StageTimeoutFixedName(name) ==
    [ kind |-> "StageTimeout", stage |-> "extraction",
      timeout_secs |-> stage_timeout \div TicksPerSec ]

\* PipelineError::StageTimeout { stage, timeout_secs } built at lines 373-376 / 415-418.
StageTimeout(name) ==
    [ kind |-> "StageTimeout", stage |-> name, timeout_secs |-> AsSecs(stage_timeout) ]

\* map_err at lines 377-378: a JoinError and a stage error both become ExtractionFailed.
ExtractionFailed(out) ==
    [ kind |-> "ExtractionFailed",
      detail |-> IF out = "panic" THEN "Task join error" ELSE "stage error" ]

\* Variant: the analysis handle's errors are mapped with the extraction's map_err.
AnalysisFailedAsExtraction(out) ==
    [ kind |-> "ExtractionFailed",
      detail |-> IF out = "panic" THEN "Task join error" ELSE "stage error" ]

\* map_err at lines 419-420.
AnalysisFailed(out) ==
    [ kind |-> "AnalysisFailed",
      detail |-> IF out = "panic" THEN "Task join error" ELSE "stage error" ]

\* Variant: Drop removes the directory that holds all the extraction directories.
DropRemovesParent(t, disk, rmOk) ==
    IF t.cleanup_on_drop /\ rmOk THEN { } ELSE disk

\* Variant: Drop removes the directory whatever the flag says.
DropIgnoresFlag(t, disk, rmOk) ==
    IF t.path \in disk /\ rmOk THEN disk \ { t.path } ELSE disk

\* Variant: Drop leaves the directory alone.
DropKeepsDirectory(t, disk, rmOk) == disk

\* Drop for TempExtraction: the directories left on disk when `t` is dropped while
\* `disk` exists; rmOk is whether remove_dir_all succeeds.
DropTempExtraction(t, disk, rmOk) ==
    IF t.cleanup_on_drop /\ t.path \in disk
    THEN IF rmOk THEN disk \ { t.path } ELSE disk
    ELSE disk

\* Variant: the result of remove_dir_all is discarded without a word.
DropSilent(t, disk, rmOk) == FALSE

\* Drop for TempExtraction: whether the warning is printed.
DropWarns(t, disk, rmOk) == t.cleanup_on_drop /\ t.path \in disk /\ ~rmOk

\* Variant: Drop unwraps the result of remove_dir_all and panics on Err.
WorkerOutcomeDropPanics(out, t, disk, rmOk) ==
    IF t.cleanup_on_drop /\ t.path \in disk /\ ~rmOk THEN "panic" ELSE out

\* What the worker's JoinHandle delivers when the stage gave `out` and the worker
\* then dropped `t`: Drop returns nothing and handles the Err of remove_dir_all
\* itself (lines 103-109), so the stage's outcome is delivered as it is.
WorkerOutcome(out, t, disk, rmOk) == out

\* Variant: the policy is only ever used to switch cleanup on.
OverrideCleanupOnly(t, flag) ==
    [ t EXCEPT !.cleanup_on_drop = t.cleanup_on_drop \/ flag ]

\* Variant: line 381 missing, the stage's own flag stays.
OverrideCleanupMissing(t, flag) == t

\* Line 381: the coordinator's policy replaces the flag the stage stored.
OverrideCleanup(t, flag) == [ t EXCEPT !.cleanup_on_drop = flag ]

\* Variant: the timeout aborts the stage's task.
WorkerAborted(w) == [ st |-> "done", out |-> "panic" ]

\* The worker of a stage whose timeout has fired: dropping the JoinHandle of a
\* spawn_blocking task detaches it, and the closure keeps running.
WorkerAfterTimeout(w) == w

\* Variant: one deadline for the whole run, set when extraction was dispatched.
AnalysisTimerShared(c) == extraction_start[c]

\* Line 410: the analysis stage gets a timer of its own, armed when the stage is
\* dispatched.
AnalysisTimerStart(c) == analysis_start[c]

\* Variant: the resource is released by a call at the end of the stage, which a
\* panic skips.
DropRunsOnReturn(out) == out # "panic"

\* The TempExtraction owned by a worker's closure is dropped however the closure
\* ends: on return of Ok or Err, and while a panic unwinds.
DropRuns(out) == out \in StageOutcomes

\* Variant: the analyzer is lent the resource and the coordinator keeps it.
AnalysisOwnerLent == "coordinator"

\* Line 412: `temp` is moved into the analysis worker's closure, which owns it
\* from then on (Analyzer::execute takes the TempExtraction by value).
AnalysisOwner == "analysis_worker"

\* Lines 404-408.
ExtractionPathForResult(cleanup, t) == IF cleanup THEN None ELSE Some(t.path)

\* Variant: the total is read from the analysis clock.
FinalStatsAnalysisClock(st, files, analysisElapsed, totalElapsed) ==
    [ st EXCEPT !.analysis_duration_ms = AsMillis(analysisElapsed),
                !.files_processed = Len(files),
                !.total_size_bytes = IterSum(files),
                !.total_duration_ms = AsMillis(analysisElapsed) ]

\* Lines 422-424 and 433: the stats of a successful run.
FinalStats(st, files, analysisElapsed, totalElapsed) ==
    [ st EXCEPT !.analysis_duration_ms = AsMillis(analysisElapsed),
                !.files_processed = Len(files),
                !.total_size_bytes = IterSum(files),
                !.total_duration_ms = AsMillis(totalElapsed) ]

\* Whether the temp directory of call c is on disk (FALSE when none was produced).
DirOnDisk(c, disk) == holder[c] # "none" /\ temp[c].path \in disk

\* Variant: a stage error is swallowed and the run goes on to analysis.
ExtractionSucceededOrErr(c) == exw[c].out \in { "ok", "err" }

\* The `?` after the extraction stage: only Ok(Ok(Ok(temp))) goes on to analysis.
ExtractionSucceeded(c) == exw[c].out = "ok"

\* Variant: a failed run is sent through extraction again.
MayDispatchExtractionRetry(c) == pc[c] \in { "begun", "failed" }

\* execute runs top to bottom: the extraction stage is dispatched once, from the top.
MayDispatchExtraction(c) == pc[c] = "begun"

\* ------------------------------------------------------- pipeline actions

\* Lines 355-356: start the clock, stats = HarvestStats::default().
Begin(c) ==
    /\ pc[c] = "idle"
    /\ pc' = [pc EXCEPT ![c] = "begun"]
    /\ start' = [start EXCEPT ![c] = now]
    /\ stats' = [stats EXCEPT ![c] = DefaultStats]
    /\ UNCHANGED << auto_cleanup, stage_timeout, stage_names, now, fs, warnings,
                    extraction_start, analysis_start, exw, anw, temp, holder,
                    extraction_path_for_result, metadata, result, extractCalls,
                    analyzeCalls, drops, dirAtReturn, pathVars, execVars, finishedInTime,
                    stageOut >>

\* Lines 363-370: take extraction_start and spawn the extraction worker.
DispatchExtraction(c) ==
    /\ MayDispatchExtraction(c)
    /\ exw[c].st # "running"
    /\ pc' = [pc EXCEPT ![c] = "extracting"]
    /\ extraction_start' = [extraction_start EXCEPT ![c] = now]
    /\ exw' = [exw EXCEPT ![c] = TaskRunning]
    /\ extractCalls' = [extractCalls EXCEPT ![c] = @ + 1]
    /\ UNCHANGED << auto_cleanup, stage_timeout, stage_names, now, fs, warnings,
                    start, analysis_start, stats, anw, temp, holder,
                    extraction_path_for_result, metadata, result, analyzeCalls,
                    drops, dirAtReturn, pathVars, execVars, finishedInTime,
                    stageOut >>

\* The extraction worker returns: extractor.execute(source, auto_cleanup) gave
\* Ok(TempExtraction { path: p, cleanup_on_drop: flag }), an error, or panicked.
\* A TempExtraction whose JoinHandle the coordinator has dropped (timeout) is
\* dropped on the spot.
ExtractionWorkerFinish(c, out, p, flag, rmOk) ==
    /\ exw[c].st = "running"
    /\ exw' = [exw EXCEPT ![c] = TaskDone(out)]
    /\ stageOut' = [stageOut EXCEPT ![c].extraction = out,
                                    ![c].cleanup_on_drop = (out = "ok" /\ flag)]
    /\ finishedInTime' = [finishedInTime EXCEPT
                              ![c].extraction = now - extraction_start[c] < stage_timeout]
    /\ IF out = "ok"
       THEN LET t == [ path |-> p, cleanup_on_drop |-> flag ]
                disk == fs \cup { p }
            IN  /\ temp' = [temp EXCEPT ![c] = t]
                /\ IF pc[c] = "extracting"
                   THEN /\ holder' = [holder EXCEPT ![c] = "join_handle"]
                        /\ fs' = disk
                        /\ UNCHANGED << drops, warnings >>
                   ELSE /\ holder' = [holder EXCEPT ![c] = "dropped"]
                        /\ fs' = DropTempExtraction(t, disk, rmOk)
                        /\ drops' = [drops EXCEPT ![c] = @ + 1]
                        /\ warnings' = warnings \cup
                               (IF DropWarns(t, disk, rmOk) THEN { t.path } ELSE { })
       ELSE UNCHANGED << temp, holder, fs, drops, warnings >>
    /\ UNCHANGED << auto_cleanup, stage_timeout, stage_names, now, pc, start,
                    extraction_start, analysis_start, stats, anw,
                    extraction_path_for_result, metadata, result, extractCalls,
                    analyzeCalls, dirAtReturn, pathVars, execVars >>

\* Lines 372-376: the timeout wins the race; execute returns StageTimeout.
ExtractionTimeout(c) ==
    /\ pc[c] = "extracting"
    /\ exw[c].st = "running"
    /\ Elapsed(extraction_start[c])
    /\ pc' = [pc EXCEPT ![c] = "failed"]
    /\ result' = [result EXCEPT ![c] = StageTimeout(stage_names[1])]
    /\ dirAtReturn' = [dirAtReturn EXCEPT ![c] = DirOnDisk(c, fs)]
    /\ exw' = [exw EXCEPT ![c] = WorkerAfterTimeout(@)]
    /\ UNCHANGED << auto_cleanup, stage_timeout, stage_names, now, fs, warnings,
                    start, extraction_start, analysis_start, stats, anw, temp,
                    holder, extraction_path_for_result, metadata, extractCalls,
                    analyzeCalls, drops, pathVars, execVars, finishedInTime,
                    stageOut >>

\* Lines 372-383: the worker's result wins the race.  A JoinError or a stage error
\* returns ExtractionFailed; on success the coordinator takes the TempExtraction,
\* overrides its flag and records the extraction duration.
ExtractionReceive(c) ==
    /\ pc[c] = "extracting"
    /\ exw[c].st = "done"
    /\ IF ExtractionSucceeded(c)
       THEN /\ pc' = [pc EXCEPT ![c] = "extracted"]
            /\ temp' = [temp EXCEPT ![c] = OverrideCleanup(@, auto_cleanup)]
            /\ holder' = [holder EXCEPT ![c] = "coordinator"]
            /\ stats' = [stats EXCEPT ![c].extraction_duration_ms =
                             AsMillis(now - extraction_start[c])]
            /\ UNCHANGED << result, dirAtReturn >>
       ELSE /\ pc' = [pc EXCEPT ![c] = "failed"]
            /\ result' = [result EXCEPT ![c] = ExtractionFailed(exw[c].out)]
            /\ dirAtReturn' = [dirAtReturn EXCEPT ![c] = DirOnDisk(c, fs)]
            /\ UNCHANGED << temp, holder, stats >>
    /\ UNCHANGED << auto_cleanup, stage_timeout, stage_names, now, fs, warnings,
                    start, extraction_start, analysis_start, exw, anw,
                    extraction_path_for_result, metadata, extractCalls,
                    analyzeCalls, drops, pathVars, execVars, finishedInTime,
                    stageOut >>

\* Lines 399-412: take analysis_start, capture the path for the result, move temp
\* into the analysis worker.
DispatchAnalysis(c) ==
    /\ pc[c] = "extracted"
    /\ pc' = [pc EXCEPT ![c] = "analyzing"]
    /\ analysis_start' = [analysis_start EXCEPT ![c] = now]
    /\ extraction_path_for_result' =
           [extraction_path_for_result EXCEPT
               ![c] = ExtractionPathForResult(auto_cleanup, temp[c])]
    /\ holder' = [holder EXCEPT ![c] = AnalysisOwner]
    /\ anw' = [anw EXCEPT ![c] = TaskRunning]
    /\ analyzeCalls' = [analyzeCalls EXCEPT ![c] = @ + 1]
    /\ UNCHANGED << auto_cleanup, stage_timeout, stage_names, now, fs, warnings,
                    start, extraction_start, stats, exw, temp, metadata, result,
                    extractCalls, drops, dirAtReturn, pathVars, execVars, finishedInTime,
                    stageOut >>

\* The analysis worker returns (Ok(metadata with `files`), an error, or a panic that
\* unwinds): analyzer.execute owned temp, so temp is dropped before the task's
\* result is published.
AnalysisWorkerFinish(c, out, files, rmOk) ==
    /\ anw[c].st = "running"
    /\ anw' = [anw EXCEPT ![c] = TaskDone(WorkerOutcome(out, temp[c], fs, rmOk))]
    /\ stageOut' = [stageOut EXCEPT ![c].analysis = out]
    /\ finishedInTime' = [finishedInTime EXCEPT
                              ![c].analysis = now - analysis_start[c] < stage_timeout]
    /\ metadata' = [metadata EXCEPT ![c] = IF out = "ok" THEN files ELSE << >>]
    /\ IF DropRuns(out)
       THEN /\ holder' = [holder EXCEPT ![c] = "dropped"]
            /\ fs' = DropTempExtraction(temp[c], fs, rmOk)
            /\ warnings' = warnings \cup
                   (IF DropWarns(temp[c], fs, rmOk) THEN { temp[c].path } ELSE { })
            /\ drops' = [drops EXCEPT ![c] = @ + 1]
       ELSE UNCHANGED << holder, fs, warnings, drops >>
    /\ UNCHANGED << auto_cleanup, stage_timeout, stage_names, now, pc, start,
                    extraction_start, analysis_start, stats, exw, temp,
                    extraction_path_for_result, result, extractCalls, analyzeCalls,
                    dirAtReturn, pathVars, execVars >>

\* Lines 414-418: the timeout wins the race; execute returns StageTimeout and the
\* worker keeps running with temp.
AnalysisTimeout(c) ==
    /\ pc[c] = "analyzing"
    /\ anw[c].st = "running"
    /\ Elapsed(AnalysisTimerStart(c))
    /\ pc' = [pc EXCEPT ![c] = "failed"]
    /\ result' = [result EXCEPT ![c] = StageTimeout(stage_names[2])]
    /\ dirAtReturn' = [dirAtReturn EXCEPT ![c] = DirOnDisk(c, fs)]
    /\ anw' = [anw EXCEPT ![c] = WorkerAfterTimeout(@)]
    /\ UNCHANGED << auto_cleanup, stage_timeout, stage_names, now, fs, warnings,
                    start, extraction_start, analysis_start, stats, exw, temp,
                    holder, extraction_path_for_result, metadata, extractCalls,
                    analyzeCalls, drops, pathVars, execVars, finishedInTime,
                    stageOut >>

\* Lines 414-441: the worker's result wins the race.  A JoinError or a stage error
\* returns AnalysisFailed; on success the stats are completed and the
\* HarvestResult is returned.
AnalysisReceive(c) ==
    /\ pc[c] = "analyzing"
    /\ anw[c].st = "done"
    /\ IF anw[c].out = "ok"
       THEN LET st == FinalStats(stats[c], metadata[c], now - analysis_start[c],
                                 now - start[c])
            IN  /\ pc' = [pc EXCEPT ![c] = "completed"]
                /\ stats' = [stats EXCEPT ![c] = st]
                /\ result' = [result EXCEPT ![c] =
                       [ kind |-> "Ok", metadata |-> metadata[c],
                         extraction_path |-> extraction_path_for_result[c],
                         stats |-> st ]]
       ELSE /\ pc' = [pc EXCEPT ![c] = "failed"]
            /\ result' = [result EXCEPT ![c] = AnalysisFailed(anw[c].out)]
            /\ UNCHANGED stats
    /\ dirAtReturn' = [dirAtReturn EXCEPT ![c] = DirOnDisk(c, fs)]
    /\ UNCHANGED << auto_cleanup, stage_timeout, stage_names, now, fs, warnings,
                    start, extraction_start, analysis_start, exw, anw, temp, holder,
                    extraction_path_for_result, metadata, extractCalls,
                    analyzeCalls, drops, pathVars, execVars, finishedInTime,
                    stageOut >>

\* Some coordinator or worker is still at work.
Busy ==
    \E c \in Calls :
        \/ pc[c] \in { "begun", "extracting", "extracted", "analyzing" }
        \/ exw[c].st = "running"
        \/ anw[c].st = "running"

\* Time passes: one tick.
TickFine ==
    /\ Busy
    /\ now % HalfSec < MaxFine
    /\ now' = now + 1
    /\ UNCHANGED << auto_cleanup, stage_timeout, stage_names, fs, warnings, pc,
                    start, extraction_start, analysis_start, stats, exw, anw, temp,
                    holder, extraction_path_for_result, metadata, result,
                    extractCalls, analyzeCalls, drops, dirAtReturn, pathVars, execVars, finishedInTime,
                    stageOut >>

\* Time passes: half a second.
TickCoarse ==
    /\ Busy
    /\ now \div HalfSec < MaxCoarse
    /\ now' = now + HalfSec
    /\ UNCHANGED << auto_cleanup, stage_timeout, stage_names, fs, warnings, pc,
                    start, extraction_start, analysis_start, stats, exw, anw, temp,
                    holder, extraction_path_for_result, metadata, result,
                    extractCalls, analyzeCalls, drops, dirAtReturn, pathVars, execVars, finishedInTime,
                    stageOut >>

NotCalled == [ ret |-> [ kind |-> "NotCalled" ], exists |-> FALSE, canon |-> << >> ]

\* safe_child is not under test in the pipeline specifications.
PathIdle ==
    /\ scRoot = << >>
    /\ scRel = << >>
    /\ scRootExists = FALSE
    /\ scCanon = << >>
    /\ scOut = NotCalled
    /\ scFirst = NotCalled

NoParse == [ kind |-> "Pending", detail |-> "" ]

\* No executor call is under test in the pipeline and path specifications.
ExecIdle ==
    /\ limit = 0
    /\ permits = 0
    /\ waiters = << >>
    /\ closed = FALSE
    /\ epc = [k \in ExecCalls |-> "idle"]
    /\ eres = [k \in ExecCalls |-> NoParse]
    /\ parseCalls = [k \in ExecCalls |-> 0]

\* HarvestPipeline::new(..).with_timeout(t).with_cleanup(b) for every t and b,
\* no execute call made yet.
PipelineInit(timeouts, names) ==
    /\ auto_cleanup \in BOOLEAN
    /\ stage_timeout \in timeouts
    /\ stage_names \in names
    /\ now = 0
    /\ fs = { }
    /\ warnings = { }
    /\ pc = [c \in Calls |-> "idle"]
    /\ start = [c \in Calls |-> 0]
    /\ extraction_start = [c \in Calls |-> 0]
    /\ analysis_start = [c \in Calls |-> 0]
    /\ stats = [c \in Calls |-> DefaultStats]
    /\ exw = [c \in Calls |-> TaskIdle]
    /\ anw = [c \in Calls |-> TaskIdle]
    /\ temp = [c \in Calls |-> NoTemp]
    /\ holder = [c \in Calls |-> "none"]
    /\ extraction_path_for_result = [c \in Calls |-> None]
    /\ metadata = [c \in Calls |-> << >>]
    /\ result = [c \in Calls |-> NoResult]
    /\ extractCalls = [c \in Calls |-> 0]
    /\ analyzeCalls = [c \in Calls |-> 0]
    /\ drops = [c \in Calls |-> 0]
    /\ dirAtReturn = [c \in Calls |-> FALSE]
    /\ finishedInTime = [c \in Calls |-> [ extraction |-> FALSE, analysis |-> FALSE ]]
    /\ stageOut = [c \in Calls |-> [ extraction |-> "none", analysis |-> "none",
                                     cleanup_on_drop |-> FALSE ]]

Init ==
    /\ PipelineInit(Timeouts, StageNames)
    /\ PathIdle
    /\ ExecIdle

\* One step of execute call c or of one of its workers; the analyzer returns a
\* file list of `lists`.
CallStep(c, lists) ==
    \/ Begin(c)
    \/ DispatchExtraction(c)
    \/ \E out \in StageOutcomes, p \in Dirs, flag \in BOOLEAN, rmOk \in BOOLEAN :
           ExtractionWorkerFinish(c, out, p, flag, rmOk)
    \/ ExtractionTimeout(c)
    \/ ExtractionReceive(c)
    \/ DispatchAnalysis(c)
    \/ \E out \in StageOutcomes, files \in lists, rmOk \in BOOLEAN :
           AnalysisWorkerFinish(c, out, files, rmOk)
    \/ AnalysisTimeout(c)
    \/ AnalysisReceive(c)

\* A single execute call on the pipeline.
Next ==
    \/ CallStep(1, SmallFileLists)
    \/ TickFine
    \/ TickCoarse

Spec == Init /\ [][Next]_vars

\* A single execute call whose analyzer returns any file list, under a timeout of
\* half a second.
InitStats ==
    /\ PipelineInit({ HalfSec }, { << "mock_extractor", "mock_analyzer" >> })
    /\ PathIdle
    /\ ExecIdle

NextStats ==
    \/ CallStep(1, FileLists)
    \/ TickFine
    \/ TickCoarse

SpecStats == InitStats /\ [][NextStats]_vars

\* Concurrent execute calls on one shared pipeline whose timeout is zero, so that
\* every stage may time out or be received at any moment; the clock stands still.
\* The extractors of two calls may unpack into the same directory.
InitShared ==
    /\ PipelineInit({ 0 }, { << "mock_extractor", "mock_analyzer" >> })
    /\ PathIdle
    /\ ExecIdle

\* One step of call c or of one of its workers, with an extractor that stores the
\* flag it is given, stages that return Ok or an error, and deletions that work.
SharedStep(c) ==
    \/ Begin(c)
    \/ DispatchExtraction(c)
    \/ \E out \in { "ok", "err" }, p \in Dirs :
           ExtractionWorkerFinish(c, out, p, auto_cleanup, TRUE)
    \/ ExtractionTimeout(c)
    \/ ExtractionReceive(c)
    \/ DispatchAnalysis(c)
    \/ \E out \in { "ok", "err" } : AnalysisWorkerFinish(c, out, << >>, TRUE)
    \/ AnalysisTimeout(c)
    \/ AnalysisReceive(c)

NextShared == \E c \in Calls : SharedStep(c)

SpecShared == InitShared /\ [][NextShared]_vars

\* The runtime polls the coordinator whenever its timer has fired or a worker's
\* handle is ready, so a coordinator step that stays possible is taken.  Nothing
\* of the kind is promised for the workers: a stage may run forever.
FairCoordinator ==
    /\ WF_vars(DispatchExtraction(1))
    /\ WF_vars(ExtractionTimeout(1))
    /\ WF_vars(ExtractionReceive(1))
    /\ WF_vars(DispatchAnalysis(1))
    /\ WF_vars(AnalysisTimeout(1))
    /\ WF_vars(AnalysisReceive(1))

\* A single execute call under a timeout of zero or of half a second.
InitFair ==
    /\ PipelineInit({ 0, HalfSec }, { << "mock_extractor", "mock_analyzer" >> })
    /\ PathIdle
    /\ ExecIdle

SpecFair == InitFair /\ [][Next]_vars /\ FairCoordinator

\* Stages that terminate: a worker that is running eventually returns.
FairWorkers ==
    /\ WF_vars(\E out \in StageOutcomes, p \in Dirs, flag \in BOOLEAN, rmOk \in BOOLEAN :
                   ExtractionWorkerFinish(1, out, p, flag, rmOk))
    /\ WF_vars(\E out \in StageOutcomes, files \in SmallFileLists, rmOk \in BOOLEAN :
                   AnalysisWorkerFinish(1, out, files, rmOk))

SpecLive == SpecFair /\ FairWorkers

\* ------------------------------------------------ std::path on Unix, safe_child

\* Paths are sequences of characters.
Chars == { "/", ".", "a" }
MaxPathLen == 5
RelPaths == SeqsUpTo(Chars, MaxPathLen)

\* self.path of the TempExtraction under test: "/r", "/r/", "r" and "".
Roots == { << "/", "r" >>, << "/", "r", "/" >>, << "r" >>, << >> }
\* What an existing root may canonicalize to: itself, or the target of a symlink.
CanonOf(root) == { root, << "/", "a" >> }

\* Path::has_root / Path::is_absolute on Unix: the path starts with a separator.
IsAbsolute(s) == Len(s) > 0 /\ s[1] = "/"

\* Length of the run of non-separator characters at the front of s.
RECURSIVE ComponentLen(_)
ComponentLen(s) ==
    IF s = << >> \/ Head(s) = "/" THEN 0 ELSE 1 + ComponentLen(Tail(s))

\* Components::parse_single_component: "" and "." yield nothing, ".." is ParentDir.
ParseSingleComponent(comp) ==
    IF comp = << >> \/ comp = << "." >> THEN << >>
    ELSE IF comp = << ".", "." >> THEN << [ kind |-> "ParentDir", name |-> comp ] >>
    ELSE << [ kind |-> "Normal", name |-> comp ] >>

\* The components of the body of a path, front to back.
RECURSIVE BodyComponents(_)
BodyComponents(s) ==
    IF s = << >> THEN << >>
    ELSE LET n == ComponentLen(s)
             rest == IF n < Len(s) THEN SubSeq(s, n + 2, Len(s)) ELSE << >>
         IN  ParseSingleComponent(SubSeq(s, 1, n)) \o BodyComponents(rest)

\* Components::include_cur_dir: a relative path that starts with "." alone or "./".
IncludeCurDir(s) ==
    /\ ~IsAbsolute(s)
    /\ Len(s) > 0
    /\ s[1] = "."
    /\ (Len(s) = 1 \/ s[2] = "/")

\* Path::components() on Unix (no Prefix component exists there).
Components(s) ==
    IF IsAbsolute(s)
    THEN << [ kind |-> "RootDir", name |-> << "/" >> ] >> \o BodyComponents(Tail(s))
    ELSE IF IncludeCurDir(s)
    THEN << [ kind |-> "CurDir", name |-> << "." >> ] >> \o BodyComponents(Tail(s))
    ELSE BodyComponents(s)

\* Variant: the argument is appended without a separator.
JoinNoSeparator(base, rel) == IF IsAbsolute(rel) THEN rel ELSE base \o rel

\* PathBuf::push, as Path::join uses it: an absolute argument replaces the path;
\* otherwise a separator is added unless the path is empty or ends with one.
Join(base, rel) ==
    IF IsAbsolute(rel) THEN rel
    ELSE IF base # << >> /\ base[Len(base)] # "/" THEN base \o << "/" >> \o rel
    ELSE base \o rel

\* self.path.canonicalize().unwrap_or_else(|_| self.path.clone()), lines 72-75.
CanonicalRoot(root, exists, canon) == IF exists THEN canon ELSE root

PathTraversal(rel) == [ kind |-> "PathTraversal", attempted |-> rel ]

\* p is a prefix of q (Path::starts_with compares whole components).
IsPrefix(p, q) == Len(p) <= Len(q) /\ SubSeq(q, 1, Len(p)) = p

\* Variant: only a leading ".." is looked for.
SafeChildLeadingOnly(root, rel, exists, canon) ==
    IF IsAbsolute(rel) THEN PathTraversal(rel)
    ELSE LET comps == Components(rel)
         IN  IF comps # << >> /\ comps[1].kind = "ParentDir"
             THEN PathTraversal(rel)
             ELSE [ kind |-> "Ok", path |-> Join(root, rel) ]

\* Variant: the candidate must also start with the canonicalized root.
SafeChildCanonical(root, rel, exists, canon) ==
    IF IsAbsolute(rel) THEN PathTraversal(rel)
    ELSE LET candidate == Join(root, rel)
             canonical == CanonicalRoot(root, exists, canon)
             comps == Components(rel)
         IN  IF \/ \E i \in 1..Len(comps) :
                       comps[i].kind \in { "ParentDir", "RootDir", "Prefix" }
                \/ ~IsPrefix(Components(canonical), Components(candidate))
             THEN PathTraversal(rel)
             ELSE [ kind |-> "Ok", path |-> candidate ]

\* TempExtraction::safe_child, lines 58-96.  `exists` and `canon` are what the
\* filesystem answers to canonicalize().
SafeChild(root, rel, exists, canon) ==
    IF IsAbsolute(rel) THEN PathTraversal(rel)
    ELSE LET candidate == Join(root, rel)
             canonical == CanonicalRoot(root, exists, canon)
             comps == Components(rel)
         IN  IF \E i \in 1..Len(comps) :
                    comps[i].kind \in { "ParentDir", "RootDir", "Prefix" }
             THEN PathTraversal(rel)
             ELSE [ kind |-> "Ok", path |-> candidate ]

\* A call of safe_child on the TempExtraction under test.
SafeChildCall ==
    /\ scOut' = [ ret |-> SafeChild(scRoot, scRel, scRootExists, scCanon),
                  exists |-> scRootExists, canon |-> scCanon ]
    /\ scFirst' = IF scFirst = NotCalled THEN scOut' ELSE scFirst
    /\ UNCHANGED << scRoot, scRel, scRootExists, scCanon, pipelineVars, execVars >>

\* The filesystem changes under the TempExtraction: the root directory is created
\* (possibly as a symlink to elsewhere) or removed.
FsChange ==
    /\ \/ /\ scRootExists' = TRUE
          /\ scCanon' \in CanonOf(scRoot)
       \/ /\ scRootExists' = FALSE
          /\ scCanon' = scRoot
    /\ << scRootExists', scCanon' >> # << scRootExists, scCanon >>
    /\ UNCHANGED << scRoot, scRel, scOut, scFirst, pipelineVars, execVars >>

\* Any root, any relative path, any filesystem state; the pipeline is idle.
InitPath ==
    /\ PipelineInit({ 300 * TicksPerSec }, { << "extraction", "analysis" >> })
    /\ auto_cleanup = TRUE
    /\ scRoot \in Roots
    /\ scRel \in RelPaths
    /\ scRootExists \in BOOLEAN
    /\ scCanon \in (IF scRootExists THEN CanonOf(scRoot) ELSE { scRoot })
    /\ scOut = NotCalled
    /\ scFirst = NotCalled
    /\ ExecIdle

NextPath ==
    \/ SafeChildCall
    \/ FsChange

SpecPath == InitPath /\ [][NextPath]_vars

\* ------------------------------------------- HarvesterExecutor, tokio Semaphore

\* What parser.parse(&content) produces: a batch, one of the three ParseError
\* kinds, or a panic that unwinds through execute.
ParseOutcomes == { "Ok", "InvalidContent", "IoError", "Unknown", "panic" }

\* Semaphore::acquire takes a permit at once when one is available.
HasPermitOrNone(p) == p >= 0
HasPermit(p) == p > 0

\* Drop of the SemaphorePermit: the permit goes to the longest-waiting acquire()
\* if there is one, and back to the semaphore otherwise.  `wake` is the call that
\* is handed the permit, 0 if none.
DropPermitNoWake(p, q) ==
    [ permits |-> p + 1, waiters |-> q, wake |-> 0 ]
DropPermit(p, q) ==
    IF q # << >>
    THEN [ permits |-> p, waiters |-> Tail(q), wake |-> Head(q) ]
    ELSE [ permits |-> p + 1, waiters |-> q, wake |-> 0 ]

\* `_permit` lives to the end of execute's body: it is dropped when the parser
\* has returned, whatever it returned, and on unwinding.
PermitDroppedOnOk(out) == out = "Ok"
PermitDropped(out) == out \in ParseOutcomes

\* The value execute hands back for the parser's outcome: `result` unchanged.
ParseResult(out) == [ kind |-> out, detail |-> "parser" ]

\* Lines 27-30: acquire() on a closed semaphore fails and execute returns
\* ParseError::Unknown; on an open one the call takes a permit or queues.
ExecAcquire(k) ==
    /\ epc[k] = "idle"
    /\ IF closed
       THEN /\ epc' = [epc EXCEPT ![k] = "returned"]
            /\ eres' = [eres EXCEPT ![k] =
                            [ kind |-> "Unknown", detail |-> "Semaphore error" ]]
            /\ UNCHANGED << permits, waiters >>
       ELSE IF HasPermit(permits)
       THEN /\ permits' = permits - 1
            /\ epc' = [epc EXCEPT ![k] = "granted"]
            /\ UNCHANGED << waiters, eres >>
       ELSE /\ waiters' = Append(waiters, k)
            /\ epc' = [epc EXCEPT ![k] = "waiting"]
            /\ UNCHANGED << permits, eres >>
    /\ UNCHANGED << limit, closed, parseCalls, pipelineVars, pathVars >>

\* Lines 32-35: holding the permit, the call invokes parser.parse.
ExecParse(k) ==
    /\ epc[k] = "granted"
    /\ epc' = [epc EXCEPT ![k] = "parsing"]
    /\ parseCalls' = [parseCalls EXCEPT ![k] = @ + 1]
    /\ UNCHANGED << limit, permits, waiters, closed, eres, pipelineVars, pathVars >>

\* Lines 35-39: the parser is done; execute returns its result (or unwinds) and
\* the permit is dropped.
ExecReturn(k, out) ==
    /\ epc[k] = "parsing"
    /\ LET sem == IF PermitDropped(out) THEN DropPermit(permits, waiters)
                  ELSE [ permits |-> permits, waiters |-> waiters, wake |-> 0 ]
           end == IF out = "panic" THEN "unwound" ELSE "returned"
       IN  /\ permits' = sem.permits
           /\ waiters' = sem.waiters
           /\ epc' = [j \in ExecCalls |->
                         IF j = k THEN end
                         ELSE IF j = sem.wake THEN "granted"
                         ELSE epc[j]]
    /\ eres' = [eres EXCEPT ![k] = ParseResult(out)]
    /\ UNCHANGED << limit, closed, parseCalls, pipelineVars, pathVars >>

\* Variant: a limit of zero is raised to one.
InitialPermitsAtLeastOne(n) == IF n = 0 THEN 1 ELSE n

\* Line 14: Semaphore::new(concurrency_limit) starts with that many permits.
InitialPermits(n) == n

\* HarvesterExecutor::new(limit) for every limit, no call made yet; the pipeline
\* is idle.
InitExec ==
    /\ PipelineInit({ 300 * TicksPerSec }, { << "extraction", "analysis" >> })
    /\ auto_cleanup = TRUE
    /\ PathIdle
    /\ limit \in 0..MaxLimit
    /\ permits = InitialPermits(limit)
    /\ waiters = << >>
    /\ closed = FALSE
    /\ epc = [k \in ExecCalls |-> "idle"]
    /\ eres = [k \in ExecCalls |-> NoParse]
    /\ parseCalls = [k \in ExecCalls |-> 0]

NextExec ==
    \/ \E k \in ExecCalls : ExecAcquire(k)
    \/ \E k \in ExecCalls : ExecParse(k)
    \/ \E k \in ExecCalls, out \in ParseOutcomes : ExecReturn(k, out)

SpecExec == InitExec /\ [][NextExec]_vars

\* The runtime polls a call that holds a permit, and parsers terminate.
FairExec ==
    \A k \in ExecCalls :
        /\ WF_vars(ExecParse(k))
        /\ WF_vars(\E out \in ParseOutcomes : ExecReturn(k, out))

SpecExecFair == SpecExec /\ FairExec

\* Variant: a dropped acquire() stays in the semaphore's queue.
RemoveWaiterForgotten(q, k) == q

\* Drop of a pending Acquire future: its node is unlinked from the queue.
RemoveWaiter(q, k) == SelectSeq(q, LAMBDA j : j # k)

\* The caller drops the future of call k at one of its awaits.  At line 27 the
\* pending acquire() leaves the queue, or gives back the permit it had just been
\* handed; at line 35 the parser's future is dropped and `_permit` with it.
ExecAbandon(k) ==
    /\ epc[k] \in { "waiting", "granted", "parsing" }
    /\ LET sem == IF epc[k] = "waiting"
                  THEN [ permits |-> permits, waiters |-> RemoveWaiter(waiters, k),
                         wake |-> 0 ]
                  ELSE DropPermit(permits, waiters)
       IN  /\ permits' = sem.permits
           /\ waiters' = sem.waiters
           /\ epc' = [j \in ExecCalls |->
                         IF j = k THEN "abandoned"
                         ELSE IF j = sem.wake THEN "granted"
                         ELSE epc[j]]
    /\ eres' = [eres EXCEPT ![k] = [ kind |-> "Abandoned", detail |-> epc[k] ]]
    /\ UNCHANGED << limit, closed, parseCalls, pipelineVars, pathVars >>

\* Calls on the one executor, any of which its caller may give up on.
NextExecAbandon ==
    \/ NextExec
    \/ \E k \in ExecCalls : ExecAbandon(k)

SpecExecAbandon == InitExec /\ [][NextExecAbandon]_vars

\* ---------------------------------------------------------------- claims

\* The state of the run in the terms of the design: Idle, Extracting, Analyzing,
\* Completed, Failed.
RunState(c) ==
    CASE pc[c] \in { "idle", "begun" } -> "Idle"
      [] pc[c] \in { "extracting", "extracted" } -> "Extracting"
      [] pc[c] = "analyzing" -> "Analyzing"
      [] pc[c] = "completed" -> "Completed"
      [] pc[c] = "failed" -> "Failed"

RunEdges ==
    { << "Idle", "Extracting" >>, << "Extracting", "Analyzing" >>,
      << "Extracting", "Failed" >>, << "Analyzing", "Completed" >>,
      << "Analyzing", "Failed" >> }

C1_Step(c) ==
    \* the run moves only along the edges of the state machine
    /\ RunState(c)' # RunState(c) => << RunState(c), RunState(c)' >> \in RunEdges
    \* the analysis stage is dispatched only once the extraction worker has
    \* delivered success to a coordinator that has reported no timeout
    /\ analyzeCalls'[c] # analyzeCalls[c] =>
           /\ RunState(c) = "Extracting"
           /\ exw[c] = TaskDone("ok")
           /\ result[c] = NoResult
           /\ holder[c] = "coordinator"
    \* a failure is returned from Extracting or Analyzing, and ends the run as Failed
    /\ (result'[c] # result[c] /\ result'[c].kind # "Ok") =>
           /\ RunState(c) \in { "Extracting", "Analyzing" }
           /\ RunState(c)' = "Failed"
    \* once Failed or Completed, no stage is invoked and nothing more is returned
    /\ RunState(c) \in { "Failed", "Completed" } =>
           /\ extractCalls'[c] = extractCalls[c]
           /\ analyzeCalls'[c] = analyzeCalls[c]
           /\ result'[c] = result[c]
    \* a run that failed in extraction never invoked the analysis stage
    /\ (RunState(c) = "Extracting" /\ RunState(c)' = "Failed") => analyzeCalls'[c] = 0

\* C1: every run of execute moves only along Idle -> Extracting -> Analyzing ->
\* {Completed | Failed}; analysis is dispatched only after the extraction stage
\* returned success to the coordinator (the timeout did not win the race), and
\* the first failure in either stage ends the run as Failed with no later stage
\* invoked.
C1_StateMachine == [][\A c \in Calls : C1_Step(c)]_vars

\* A run went through both stages and completed.
C1_Witness ==
    /\ pc[1] = "completed"
    /\ extractCalls[1] = 1
    /\ analyzeCalls[1] = 1

\* C2: one call of execute invokes the extraction stage at most once and the
\* analysis stage at most once, whatever the stages' outcomes.
C2_NoRetry == \A c \in Calls : extractCalls[c] <= 1 /\ analyzeCalls[c] <= 1

\* A run whose analysis stage failed ended without a second attempt.
C2_Witness ==
    /\ pc[1] = "failed"
    /\ result[1].kind = "AnalysisFailed"
    /\ extractCalls[1] = 1
    /\ analyzeCalls[1] = 1

\* execute has returned a HarvestResult to the caller of call c.
ReturnedOk(c) == pc[c] = "completed" /\ result[c].kind = "Ok"

C4_DirectoryKept ==
    \A c \in Calls :
        (ReturnedOk(c) /\ ~auto_cleanup) =>
            /\ result[c].extraction_path = Some(temp[c].path)
            /\ temp[c].path \in Dirs
            /\ dirAtReturn[c]
            /\ temp[c].path \in fs
            /\ holder[c] = "dropped"

\* A run with cleanup disabled returned its path and the directory is on disk.
C4_Witness ==
    /\ ReturnedOk(1)
    /\ ~auto_cleanup
    /\ result[1].extraction_path = Some("/tmp/x2")
    /\ "/tmp/x2" \in fs

\* The limbs of a u64 widened by one limb, and the sum of the sizes without loss.
Widen(v) == v \o << 0 >>

RECURSIVE ExactSum(_)
ExactSum(files) ==
    IF files = << >> THEN Widen(U64Zero)
    ELSE SubSeq(AddLimbs(Widen(Head(files)), ExactSum(Tail(files)), 0), 1, U64Limbs + 1)

\* C5: for every successful run, stats.files_processed is the number of entries
\* of the returned metadata's file list and stats.total_size_bytes is the sum of
\* their sizes.
C5_StatsMatchFiles ==
    \A c \in Calls :
        ReturnedOk(c) =>
            /\ result[c].stats.files_processed = Len(result[c].metadata)
            /\ Widen(result[c].stats.total_size_bytes) = ExactSum(result[c].metadata)

\* Which stage a returned StageTimeout belongs to: the analysis stage exactly when
\* it had been dispatched.
TimedOut(c) == pc[c] = "failed" /\ result[c].kind = "StageTimeout"
TimedOutIn(c) == IF analyzeCalls[c] = 0 THEN "extraction" ELSE "analysis"

\* C9 as stated: a timeout of the extraction stage returns StageTimeout with
\* stage = "extraction", a timeout of the analysis stage StageTimeout with
\* stage = "analysis".
C9_StageLiteral ==
    \A c \in Calls : TimedOut(c) => result[c].stage = TimedOutIn(c)

\* C9 (amended): a timeout of the extraction stage returns StageTimeout whose
\* stage is the extractor's stage_name(), a timeout of the analysis stage
\* StageTimeout whose stage is the analyzer's stage_name(); the name is always
\* taken from the stage that timed out.
C9_StageName ==
    \A c \in Calls :
        TimedOut(c) =>
            /\ TimedOutIn(c) = "extraction" => result[c].stage = stage_names[1]
            /\ TimedOutIn(c) = "analysis" => result[c].stage = stage_names[2]

\* The analysis stage timed out and the error names the analyzer.
C9_Witness ==
    /\ TimedOut(1)
    /\ analyzeCalls[1] = 1
    /\ result[1].stage = "mock_analyzer"

\* C10 as stated: a StageTimeout carries a timeout_secs equal to the configured
\* timeout.
C10_TimeoutEqual ==
    \A c \in Calls : TimedOut(c) => result[c].timeout_secs * TicksPerSec = stage_timeout

\* C10 (amended): a StageTimeout carries the whole seconds of the configured
\* timeout; the sub-second part of stage_timeout is dropped.
C10_TimeoutWholeSecs ==
    \A c \in Calls :
        TimedOut(c) =>
            /\ result[c].timeout_secs * TicksPerSec <= stage_timeout
            /\ stage_timeout < (result[c].timeout_secs + 1) * TicksPerSec

\* A stage timed out under a timeout of one and a half seconds, reported as 1.
C10_Witness ==
    /\ TimedOut(1)
    /\ stage_timeout = 3 * HalfSec
    /\ result[1].timeout_secs = 1

\* safe_child has been called on (scRoot, scRel).
Called == scOut # NotCalled

\* The text s holds ".." as a whole segment: bounded by separators or the ends.
HasParentSegment(s) ==
    \E i \in 1..(Len(s) - 1) :
        /\ s[i] = "." /\ s[i + 1] = "."
        /\ i = 1 \/ s[i - 1] = "/"
        /\ i + 1 = Len(s) \/ s[i + 2] = "/"

\* The text s starts at the root.
StartsAtRoot(s) == s # << >> /\ s[1] = "/"

\* C6: safe_child returns PathTraversal, never Ok, for every path that is
\* absolute or holds a ".." or root component at any position.
C6_RejectsTraversal ==
    (Called /\ (StartsAtRoot(scRel) \/ HasParentSegment(scRel))) =>
        /\ scOut.ret.kind = "PathTraversal"
        /\ scOut.ret.attempted = scRel

\* A relative path with ".." after a normal component was rejected.
C6_Witness ==
    /\ Called
    /\ scRel = << "a", "/", ".", "." >>
    /\ scOut.ret.kind = "PathTraversal"

\* The root, a separator unless the root is empty or ends with one, and s.
Appended(root, s) ==
    IF root = << >> \/ root[Len(root)] = "/" THEN root \o s
    ELSE root \o << "/" >> \o s

\* C7: for every relative path without "..", root or prefix component,
\* safe_child returns Ok(root.join(relative)); the root's components are a prefix
\* of the result's; nothing depends on the result existing.
C7_JoinsUnderRoot ==
    (Called /\ ~StartsAtRoot(scRel) /\ ~HasParentSegment(scRel)) =>
        /\ scOut.ret.kind = "Ok"
        /\ scOut.ret.path = Appended(scRoot, scRel)
        /\ IsPrefix(Components(scRoot), Components(scOut.ret.path))

\* "a/a" under "/r", which does not exist, came back as "/r/a/a".
C7_Witness ==
    /\ Called
    /\ scRoot = << "/", "r" >>
    /\ scRel = << "a", "/", "a" >>
    /\ ~scOut.exists
    /\ scOut.ret = [ kind |-> "Ok", path |-> << "/", "r", "/", "a", "/", "a" >> ]

OverdueExtraction(c) ==
    /\ pc[c] = "extracting"
    /\ exw[c].st = "running"
    /\ now - extraction_start[c] >= stage_timeout
OverdueAnalysis(c) ==
    /\ pc[c] = "analyzing"
    /\ anw[c].st = "running"
    /\ now - analysis_start[c] >= stage_timeout

\* C11: when a stage's deadline has passed and its worker has not completed,
\* execute returns StageTimeout without waiting for the worker: under a fair
\* coordinator and with no promise that the worker ever finishes, the call does
\* not stay waiting; it has returned StageTimeout unless the worker completed
\* after all before the coordinator ran.
C11_TimeoutDoesNotWait ==
    \A c \in { 1 } :
        /\ OverdueExtraction(c) ~> (TimedOut(c) \/ exw[c].st = "done")
        /\ OverdueAnalysis(c) ~> (TimedOut(c) \/ anw[c].st = "done")

\* execute has returned StageTimeout for the analysis stage and the analysis
\* worker is still running.
C11_Witness ==
    /\ TimedOut(1)
    /\ analyzeCalls[1] = 1
    /\ anw[1].st = "running"

\* Both workers of call c returned success, each before its stage's deadline.
BothInTime(c) ==
    /\ exw[c] = TaskDone("ok")
    /\ finishedInTime[c].extraction
    /\ anw[c] = TaskDone("ok")
    /\ finishedInTime[c].analysis

\* C12: when both stages return success, each before its timeout has elapsed, a
\* call that has returned has returned a HarvestResult carrying the metadata the
\* analysis stage produced; and a StageTimeout is never returned for a stage
\* whose worker completed within the timeout.
C12_InTimeSucceeds ==
    \A c \in Calls :
        /\ (BothInTime(c) /\ pc[c] \in { "completed", "failed" }) =>
               /\ ReturnedOk(c)
               /\ result[c].metadata = metadata[c]
        /\ (TimedOut(c) /\ TimedOutIn(c) = "extraction" /\ exw[c].st = "done") =>
               ~finishedInTime[c].extraction
        /\ (TimedOut(c) /\ TimedOutIn(c) = "analysis" /\ anw[c].st = "done") =>
               ~finishedInTime[c].analysis

\* Under a timeout of half a second both stages succeeded in time, some time
\* passed, and execute returned the analyzer's one-file metadata.
C12_Witness ==
    /\ BothInTime(1)
    /\ ReturnedOk(1)
    /\ stage_timeout = HalfSec
    /\ now > start[1]
    /\ Len(result[1].metadata) = 1

\* The calls whose parser.parse invocation is in flight.
InFlight == { k \in ExecCalls : epc[k] = "parsing" }

\* C13: for a limit N >= 1 and any number of concurrent execute calls on the one
\* executor, at most N parser.parse invocations are in flight in every state.
C13_AtMostLimitInFlight ==
    limit >= 1 => Cardinality(InFlight) <= limit

\* With a limit of 2, two parsers are in flight and a third call is queued.
C13_Witness ==
    /\ limit = 2
    /\ Cardinality(InFlight) = 2
    /\ Len(waiters) = 1

\* Call k has been made and has not come back yet.
Outstanding(k) == epc[k] \in { "waiting", "granted", "parsing" }
\* Call k is over: it returned, or its parser's panic unwound through it.
Over(k) == epc[k] \in { "returned", "unwound" }

\* C14: for a limit N >= 1 and a finite burst of execute calls whose parsers each
\* terminate, every call that was made eventually gets a slot, runs its parser
\* once and comes back; no call waits forever.
C14_EveryCallReturns ==
    \A k \in ExecCalls :
        (limit >= 1 /\ Outstanding(k)) ~> (Over(k) /\ parseCalls[k] = 1)

\* With a single slot, all the calls of the burst have returned a batch.
C14_Witness ==
    /\ limit = 1
    /\ \A k \in ExecCalls : epc[k] = "returned" /\ eres[k] = ParseResult("Ok")
    /\ \A k \in ExecCalls : parseCalls[k] = 1

\* The calls that hold a slot.
Holding == { k \in ExecCalls : epc[k] \in { "granted", "parsing" } }

\* C15: execute takes exactly one slot before it invokes the parser and gives it
\* back when the parser call returns, with success or with an error: every call
\* with a parser in flight holds one slot of the N, a call that is over ran its
\* parser once, and when no call is outstanding all N slots are available.
C15_SlotsReturned ==
    /\ InFlight \subseteq Holding
    /\ permits + Cardinality(Holding) = limit
    /\ \A k \in ExecCalls : Over(k) => parseCalls[k] = 1
    /\ (\A k \in ExecCalls : ~Outstanding(k)) => (permits = limit /\ waiters = << >>)

\* All the calls have returned, one of them with the parser's error, and both
\* slots are available.
C15_Witness ==
    /\ limit = 2
    /\ \A k \in ExecCalls : epc[k] = "returned"
    /\ eres[1] = ParseResult("InvalidContent")
    /\ eres[2] = ParseResult("Ok")
    /\ permits = 2

\* A worker outcome that is a failure: the stage's own error, or a fault (panic)
\* of the worker.
Failure(out) == out \in { "err", "panic" }

\* The error kinds under which call c's failure may be, and is, reported.
C17_Kinds(c) ==
    /\ result[c].kind \in { "StageTimeout", "ExtractionFailed", "AnalysisFailed" }
    /\ result[c].kind = "ExtractionFailed" <=>
           (exw[c].st = "done" /\ Failure(exw[c].out) /\ analyzeCalls[c] = 0
            /\ ~TimedOut(c))
    /\ result[c].kind = "AnalysisFailed" <=>
           (anw[c].st = "done" /\ Failure(anw[c].out) /\ exw[c] = TaskDone("ok")
            /\ ~TimedOut(c))

\* C17: a run fails with ExtractionFailed exactly when the extraction stage
\* reported an error or its worker faulted (and the stage had not timed out),
\* with AnalysisFailed exactly when the analysis stage did; neither failure is
\* reported under the other kind; and the error a failed run returned is the
\* only one: it is never replaced by another.
C17_ErrorKinds ==
    /\ [](\A c \in Calls : pc[c] = "failed" => C17_Kinds(c))
    /\ [][\A c \in Calls : pc[c] = "failed" =>
              (pc'[c] = "failed" /\ result'[c] = result[c])]_vars

\* Extraction succeeded, the analysis worker panicked, and execute returned
\* AnalysisFailed.
C17_Witness ==
    /\ pc[1] = "failed"
    /\ exw[1] = TaskDone("ok")
    /\ anw[1] = TaskDone("panic")
    /\ result[1] = AnalysisFailed("panic")

RunOver(c) ==
    /\ pc[c] \in { "completed", "failed" }
    /\ exw[c].st # "running"
    /\ anw[c].st # "running"

\* C19: with auto_cleanup = true cleanup is attempted on every exit path of
\* execute, the extraction-timeout path included: once the run's workers are
\* done, the directory the run created has been removed, or at least its removal
\* was attempted and failed with a warning; no directory is left behind without
\* an attempt.
C19_CleanupOnEveryExit ==
    \A c \in Calls :
        (auto_cleanup /\ RunOver(c) /\ temp[c] # NoTemp) =>
            (temp[c].path \notin fs \/ temp[c].path \in warnings)

\* The value execute returns for the outcomes of call c's stages, with no regard
\* to the disk: the timeout error when a stage lost the race, else the failure of
\* the first stage that failed, else the HarvestResult.
ValueForOutcomes(c) ==
    IF TimedOut(c)
    THEN [ kind |-> "StageTimeout",
           stage |-> IF TimedOutIn(c) = "extraction" THEN stage_names[1]
                     ELSE stage_names[2],
           timeout_secs |-> stage_timeout \div TicksPerSec ]
    ELSE IF stageOut[c].extraction # "ok"
    THEN [ kind |-> "ExtractionFailed",
           detail |-> IF stageOut[c].extraction = "panic" THEN "Task join error"
                      ELSE "stage error" ]
    ELSE IF stageOut[c].analysis # "ok"
    THEN [ kind |-> "AnalysisFailed",
           detail |-> IF stageOut[c].analysis = "panic" THEN "Task join error"
                      ELSE "stage error" ]
    ELSE [ kind |-> "Ok", metadata |-> metadata[c],
           extraction_path |-> IF auto_cleanup THEN None ELSE Some(temp[c].path),
           stats |-> stats[c] ]

\* C20: a failure to delete the extraction directory during release is never
\* escalated: the value execute returned is the one its stages' outcomes call
\* for, the same whether the deletion succeeded or failed.
C20_DeletionNotEscalated ==
    \A c \in Calls :
        pc[c] \in { "completed", "failed" } => result[c] = ValueForOutcomes(c)

\* The deletion failed while the analysis worker released the resource, and
\* execute returned the HarvestResult all the same.
C20_Witness ==
    /\ ReturnedOk(1)
    /\ temp[1].path \in warnings
    /\ temp[1].path \in fs

\* C21: after a successful extraction, the resource handed to the analysis stage
\* has its cleanup flag equal to the pipeline's auto_cleanup, whatever flag the
\* extraction stage stored in it.
C21_PolicyOverridesStage ==
    \A c \in Calls :
        analyzeCalls[c] >= 1 => temp[c].cleanup_on_drop = auto_cleanup

\* The extractor stored cleanup_on_drop = true, the pipeline is configured not
\* to clean up, and the analysis worker holds the resource with the flag off.
C21_Witness ==
    /\ holder[1] = "analysis_worker"
    /\ stageOut[1].cleanup_on_drop
    /\ ~auto_cleanup
    /\ ~temp[1].cleanup_on_drop

\* The order in which a run's resource changes hands: produced by the extraction
\* worker into its task's handle, taken by the coordinator, moved into the
\* analysis worker, released; or released straight away when the coordinator has
\* already given up on the extraction.
OwnerEdges ==
    { << "none", "join_handle" >>, << "join_handle", "coordinator" >>,
      << "coordinator", "analysis_worker" >>, << "analysis_worker", "dropped" >>,
      << "none", "dropped" >> }

\* Who holds the resource of call c agrees with what the stages are doing.
C22_Owner(c) ==
    /\ drops[c] <= 1
    /\ drops[c] = 1 <=> holder[c] = "dropped"
    /\ exw[c].st = "running" => holder[c] = "none"
    /\ anw[c].st = "running" => (holder[c] = "analysis_worker" /\ exw[c].st = "done")
    /\ holder[c] = "analysis_worker" => anw[c].st = "running"
    /\ holder[c] = "coordinator" => (pc[c] = "extracted" /\ anw[c].st = "none")
    /\ holder[c] = "join_handle" => (pc[c] = "extracting" /\ exw[c].st = "done")

\* The resource of call c changes hands in order, and it is released, and its
\* directory removed, only in the step in which its last owner lets go of it.
C22_Handover(c) ==
    /\ holder'[c] # holder[c] => << holder[c], holder'[c] >> \in OwnerEdges
    /\ drops'[c] # drops[c] =>
           /\ drops'[c] = drops[c] + 1
           /\ holder[c] \in { "analysis_worker", "none" }
           /\ holder'[c] = "dropped"
    /\ (temp[c].path \in fs /\ temp[c].path \notin fs') => drops'[c] = drops[c] + 1

\* C22: within one run the resource has exactly one owner at every moment, in
\* the order extraction worker, coordinator, analysis worker; the two stages
\* never hold it at the same time; and its release runs exactly once, when the
\* last owner lets go of it.
C22_SingleOwner ==
    /\ [](\A c \in Calls : C22_Owner(c))
    /\ [][\A c \in Calls : C22_Handover(c)]_vars

\* The resource went through all its owners, was released once by the analysis
\* worker, and its directory is gone.
C22_Witness ==
    /\ ReturnedOk(1)
    /\ holder[1] = "dropped"
    /\ drops[1] = 1
    /\ temp[1].cleanup_on_drop
    /\ temp[1].path \notin fs

\* The analysis worker of call c panicked while it held the resource, and
\* execute received the fault.
AnalysisPanicked(c) ==
    /\ stageOut[c].analysis = "panic"
    /\ pc[c] = "failed"
    /\ result[c].kind # "StageTimeout"

C24_IndependentTimeouts ==
    /\ [](\A c \in Calls :
              (BothInTime(c) /\ pc[c] \in { "completed", "failed" }) => ReturnedOk(c))
    /\ [][\A c \in Calls :
              (pc[c] = "analyzing" /\ pc'[c] = "failed"
               /\ result'[c].kind = "StageTimeout") =>
                  now - analysis_start[c] >= stage_timeout]_vars

\* Each stage finished within the timeout, execute returned the result, and the
\* run as a whole took longer than the timeout.
C24_Witness ==
    /\ BothInTime(1)
    /\ ReturnedOk(1)
    /\ stage_timeout > 0
    /\ result[1].stats.total_duration_ms * TicksPerMilli > stage_timeout

\* execute has returned StageTimeout for the analysis stage of call c.
AnalysisTimedOut(c) == TimedOut(c) /\ analyzeCalls[c] = 1

\* C25: a stage timeout does not cancel the stage's worker: the step that returns
\* StageTimeout for the analysis stage leaves the worker running and holding the
\* resource, and leaves the disk alone; the directory exists when execute
\* returns, stays while the worker runs, and is deleted, if at all, only in the
\* step in which the worker finishes.
C25_TimeoutDoesNotCancel ==
    /\ [](\A c \in { 1 } :
              AnalysisTimedOut(c) =>
                  /\ dirAtReturn[c]
                  /\ anw[c].st = "running" =>
                         (holder[c] = "analysis_worker" /\ temp[c].path \in fs))
    /\ [][\A c \in { 1 } :
              /\ (pc[c] = "analyzing" /\ AnalysisTimedOut(c)') =>
                     (anw'[c] = TaskRunning /\ holder'[c] = "analysis_worker"
                      /\ fs' = fs)
              /\ (AnalysisTimedOut(c) /\ temp[c].path \in fs
                   /\ temp[c].path \notin fs') =>
                     (anw[c].st = "running" /\ anw'[c].st = "done")]_vars

\* execute returned StageTimeout for the analysis stage while the directory was
\* on disk; the worker finished afterwards and only then was the directory
\* deleted.
C25_Witness ==
    /\ AnalysisTimedOut(1)
    /\ dirAtReturn[1]
    /\ anw[1].st = "done"
    /\ holder[1] = "dropped"
    /\ temp[1].path \notin fs

\* Extraction of call c succeeded and the coordinator took the resource.
Extracted(c) ==
    holder[c] = "coordinator" \/ analyzeCalls[c] >= 1

\* C26: with auto_cleanup = false, nothing that execute or the analysis worker
\* does after a successful extraction deletes the extraction directory: through
\* analysis error, worker fault and timeout the directory stays on disk, no
\* deletion is even attempted, and the error returned carries no extraction
\* path.
C26_DirectoryLeftAlone ==
    \A c \in Calls :
        (~auto_cleanup /\ Extracted(c)) =>
            /\ temp[c].path \in fs
            /\ temp[c].path \notin warnings
            /\ pc[c] = "failed" =>
                   /\ result[c].kind \in { "AnalysisFailed", "StageTimeout" }
                   /\ "extraction_path" \notin DOMAIN result[c]

\* With auto_cleanup = false the analyzer returned an error, the analysis worker
\* has released the resource, and the directory is still on disk.
C26_Witness ==
    /\ ~auto_cleanup
    /\ pc[1] = "failed"
    /\ result[1] = AnalysisFailed("err")
    /\ holder[1] = "dropped"
    /\ temp[1].path \in fs

\* The calls queued in the semaphore.
Queued == { waiters[i] : i \in 1..Len(waiters) }

\* C27: in every state of an executor with limit N, the available slots plus the
\* slots held by execute calls in flight make N; a call abandoned while it waits
\* for a slot, or whose parser faults, leaks none: the queue holds exactly the
\* calls that are waiting, nobody waits while a slot is free, and a call that was
\* abandoned or has unwound holds nothing.
C27_SlotsConserved ==
    /\ permits >= 0
    /\ permits + Cardinality(Holding) = limit
    /\ Queued = { k \in ExecCalls : epc[k] = "waiting" }
    /\ Len(waiters) = Cardinality(Queued)
    /\ waiters # << >> => permits = 0
    /\ Holding \cap { k \in ExecCalls : epc[k] \in { "abandoned", "unwound" } } = { }

\* With one slot: the first call's parser panicked, the second call was given up
\* while it waited, the third returned, and the slot is free.
C27_Witness ==
    /\ limit = 1
    /\ epc[1] = "unwound"
    /\ eres[2] = [ kind |-> "Abandoned", detail |-> "waiting" ]
    /\ epc[3] = "returned"
    /\ permits = 1

\* What execute call c owns: its position, workers, resource, stats and result.
CallState(c) ==
    << pc[c], exw[c], anw[c], temp[c], holder[c], stats[c], metadata[c],
       extraction_path_for_result[c], result[c], drops[c] >>

\* Call c has a resource that has not been released.
OwnsDirectory(c) == holder[c] \in { "join_handle", "coordinator", "analysis_worker" }

\* The directory of call c's resource is removed in this step.
DirectoryRemoved(c) == temp[c].path \in fs /\ temp[c].path \notin fs'

C29_DurationsAddUp ==
    \A c \in Calls :
        ReturnedOk(c) =>
            /\ result[c].stats.total_duration_ms >=
                   result[c].stats.extraction_duration_ms
                   + result[c].stats.analysis_duration_ms
            /\ start[c] <= extraction_start[c]
            /\ extraction_start[c] <= analysis_start[c]

\* Extraction took less than a millisecond and counts as 0 ms, analysis took
\* whole milliseconds, and the total is more than their sum.
C29_Witness ==
    /\ ReturnedOk(1)
    /\ result[1].stats.extraction_duration_ms = 0
    /\ analysis_start[1] > extraction_start[1]
    /\ result[1].stats.analysis_duration_ms > 0
    /\ result[1].stats.total_duration_ms >
           result[1].stats.extraction_duration_ms + result[1].stats.analysis_duration_ms

\* C30: an executor built with concurrency limit 0 never invokes a parser: every
\* execute call that is made waits for a slot and never comes back.
C30_LimitZeroBlocks ==
    limit = 0 =>
        \A k \in ExecCalls :
            /\ parseCalls[k] = 0
            /\ epc[k] \in { "idle", "waiting" }
            /\ eres[k] = NoParse
            /\ permits = 0

\* With limit 0 every call of the burst has been made and sits in the queue.
C30_Witness ==
    /\ limit = 0
    /\ \A k \in ExecCalls : epc[k] = "waiting"
    /\ Len(waiters) = NumExecCalls

====
